---- MODULE Spec2Model ----
(***************************************************************************)
(* State-machine model of the redis_memtier benchmark driver               *)
(* (perfkitbenchmarker/linux_benchmarks/redis_memtier_benchmark.py) and of *)
(* the redis_server package (perfkitbenchmarker/linux_packages/            *)
(* redis_server.py).                                                       *)
(*                                                                         *)
(* Python strings that the code inspects character by character (version   *)
(* strings, the captured output of top) are sequences of one-character     *)
(* strings.  Python lists are sequences; list index i is sequence index    *)
(* i + 1.  An optional integer flag is <<>> (None) or <<n>>.               *)
(***************************************************************************)
EXTENDS Integers, Sequences, FiniteSets, TLC

VARIABLES
  flags,          \* the absl flag values read by the two modules
  vm,             \* facts of the server machine (vm_groups['servers'][0])
  bm_spec,        \* the benchmark spec: vm_groups and redis_endpoint_ip
  env,            \* answers of the external collaborators (memtier, top)
  pc,             \* position of the benchmark lifecycle
  error,          \* "" or the name of the exception that ended the phase
  remote_log,     \* every remote operation issued so far, in issue order
  locals,         \* local variables of the running handler
  dispatch,       \* the RunThreaded call in progress (NoDispatch if none)
  dispatch_log,   \* every RunThreaded call made so far, in call order,
                  \* and whether it has returned or raised (joined)
  seen_ports,     \* the result of GetRedisPorts at each of its call sites
  result          \* what the last completed handler returned

vars == <<flags, vm, bm_spec, env, pc, error, remote_log, locals,
          dispatch, dispatch_log, seen_ports, result>>

-----------------------------------------------------------------------------
(* Bounds of the model *)

MaxProcesses == 5      \* largest --redis_total_num_processes explored
MaxSettings == 2       \* longest memtier_pipeline/threads/clients list
MaxClientVms == 2      \* largest clients vm group
MaxRows == 2           \* most lines of captured top output
MaxRawSamples == 2     \* most samples returned by the memtier sweep

-----------------------------------------------------------------------------
(* Program constants *)

DEFAULT_PORT == 6379
IO_THREADS_MIN_VERSION == <<"6", ".", "2", ".", "1">>
LOAD_GROUP_SIZE == 4
LOAD_MAX_CONCURRENCY == 10
MUX_MULTIPLIER == 10

-----------------------------------------------------------------------------
(* Python built-ins used by the code *)

\* range(n) as the sequence <<0, ..., n-1>>
Range(n) == [i \in 1..n |-> i - 1]

\* range(0, n, step) as a sequence
RangeStep(n, step) == [i \in 1..((n + step - 1) \div step) |-> (i - 1) * step]

\* s[lo:hi] for 0 <= lo, with Python's clamping of hi to len(s)
Slice(s, lo, hi) ==
  LET top == IF hi < Len(s) THEN hi ELSE Len(s)
  IN  IF lo >= top THEN <<>> ELSE [i \in 1..(top - lo) |-> s[lo + i]]

\* code point order of the characters that occur in version strings
Ord(c) ==
  CASE c = "." -> 46
    [] c = "0" -> 48
    [] c = "1" -> 49
    [] c = "2" -> 50
    [] c = "5" -> 53
    [] c = "6" -> 54
    [] c = "7" -> 55

\* a < b for Python str: the first differing code point decides, a proper
\* prefix is smaller
StrLT(a, b) ==
  \E i \in 1..Len(b) :
    /\ \A j \in 1..(i - 1) : j <= Len(a) /\ a[j] = b[j]
    /\ \/ i > Len(a)
       \/ i <= Len(a) /\ Ord(a[i]) < Ord(b[i])

StrGE(a, b) == ~StrLT(a, b)

\* bool(x) of an Optional[int] flag value
Truthy(opt) == Len(opt) = 1 /\ opt[1] # 0

\* DictUpdate with the bug "keys already present are kept" (setdefault)
DictUpdate_KeepExisting(d, other) ==
  [k \in (DOMAIN d) \cup (DOMAIN other) |->
     IF k \in DOMAIN d THEN d[k] ELSE other[k]]

\* dict.update: every key of other is set, the other keys are kept
DictUpdate(d, other) ==
  [k \in (DOMAIN d) \cup (DOMAIN other) |->
     IF k \in DOMAIN other THEN other[k] ELSE d[k]]

-----------------------------------------------------------------------------
(* redis_server.py *)

\* _GetNumProcesses with the bug "the CPU count is never consulted"
_GetNumProcesses_IgnoresVm(hasVm) == flags.redis_total_num_processes

\* _GetNumProcesses(vm); hasVm is "vm is not None"
_GetNumProcesses(hasVm) ==
  IF flags.redis_total_num_processes = 0 /\ hasVm
    THEN vm.num_cpus
    ELSE flags.redis_total_num_processes

\* GetRedisPorts(vm)
GetRedisPorts(hasVm) ==
  LET r == Range(_GetNumProcesses(hasVm))
  IN  [i \in 1..Len(r) |-> DEFAULT_PORT + r[i]]

\* _VERSION.value >= '6.2.1'
VersionSupportsIOThreads ==
  StrGE(flags.redis_server_version, IO_THREADS_MIN_VERSION)

\* _GetIOThreads(vm) for a vm that is not None
_GetIOThreads ==
  IF Truthy(flags.redis_server_io_threads)
    THEN flags.redis_server_io_threads[1]
    ELSE IF vm.threads_per_core = 1
           THEN vm.num_cpus - 1
           ELSE vm.num_cpus \div 2

\* _GetIOThreads(None) dereferences None unless the flag is truthy
GetIOThreadsRaises(hasVm) ==
  ~hasVm /\ ~Truthy(flags.redis_server_io_threads)

\* MaxMemoryPerInstance with the bug "the factor 0.9 is missing"
MaxMemoryPerInstance_NoHeadroom ==
  vm.total_memory_kb \div _GetNumProcesses(TRUE)

\* int(vm.total_memory_kb * 0.9 / num_processes).  The double product and
\* quotient truncate to the same integer as the exact rational 9t/(10n) for
\* every t below 2^49 and n below 130, so the exact form is used.
MaxMemoryPerInstance ==
  (vm.total_memory_kb * 9) \div (10 * _GetNumProcesses(TRUE))

\* cmd_args of _BuildStartCommand(vm, port), as <<flag, value>> pairs
_BuildStartCommand(port) ==
  <<<<"--port", port>>, <<"--protected-mode", "no">>>>
  \o (IF flags.redis_aof
        THEN <<<<"--appendonly", "yes">>,
               <<"--appendfilename", port>>,
               <<"--dir", "scratch">>>>
        ELSE <<>>)
  \o (IF VersionSupportsIOThreads
        THEN <<<<"--ignore-warnings", "ARM64-COW-BUG">>,
               <<"--io-threads", _GetIOThreads>>>>
        ELSE <<>>)
  \o (IF ~flags.redis_server_enable_snapshots
        THEN <<<<"--save", "">>>> ELSE <<>>)
  \o (IF flags.redis_server_io_threads_do_reads
        THEN <<<<"--io-threads-do-reads", "yes">>>> ELSE <<>>)
  \o (IF flags.redis_server_io_threads_cpu_affinity
        THEN <<<<"--server_cpulist", vm.num_cpus - 1>>>> ELSE <<>>)
  \o (IF flags.redis_eviction_policy # ""
        THEN <<<<"--maxmemory-policy", flags.redis_eviction_policy>>>>
        ELSE <<>>)
  \o <<<<"--maxmemory", MaxMemoryPerInstance>>>>

\* the value of flag name in a command built by _BuildStartCommand
ArgValue(cmd, name) ==
  LET i == CHOOSE j \in 1..Len(cmd) : cmd[j][1] = name IN cmd[i][2]

HasArg(cmd, name) == \E j \in 1..Len(cmd) : cmd[j][1] = name

\* GetMetadata(vm) for a vm for which _GetIOThreads does not raise
GetMetadata(hasVm) ==
  [redis_server_version |-> flags.redis_server_version,
   redis_server_io_threads |->
     IF VersionSupportsIOThreads THEN _GetIOThreads ELSE 0,
   redis_server_io_threads_do_reads |->
     flags.redis_server_io_threads_do_reads,
   redis_server_io_threads_cpu_affinity |->
     flags.redis_server_io_threads_cpu_affinity,
   redis_server_enable_snapshots |-> flags.redis_server_enable_snapshots,
   redis_server_num_processes |-> _GetNumProcesses(hasVm),
   redis_aof |-> flags.redis_aof]

-----------------------------------------------------------------------------
(* str methods used by _GetTopResults *)

Whitespace == {" ", "\n"}

RECURSIVE LStrip(_)
LStrip(s) ==
  IF s # <<>> /\ Head(s) \in Whitespace THEN LStrip(Tail(s)) ELSE s

RECURSIVE RStrip(_)
RStrip(s) ==
  IF s # <<>> /\ s[Len(s)] \in Whitespace
    THEN RStrip(SubSeq(s, 1, Len(s) - 1))
    ELSE s

\* s.strip()
Strip(s) == RStrip(LStrip(s))

\* s.split(sep) for a one-character separator: empty fields are kept
RECURSIVE Split(_, _)
Split(s, sep) ==
  IF \A i \in 1..Len(s) : s[i] # sep
    THEN <<s>>
    ELSE LET i == CHOOSE j \in 1..Len(s) :
                    s[j] = sep /\ \A k \in 1..(j - 1) : s[k] # sep
         IN  <<SubSeq(s, 1, i - 1)>> \o Split(SubSeq(s, i + 1, Len(s)), sep)

\* s.splitlines() for "\n" line ends: no empty last line
SplitLines(s) ==
  IF s = <<>> THEN <<>>
  ELSE IF s[Len(s)] = "\n"
         THEN Split(SubSeq(s, 1, Len(s) - 1), "\n")
         ELSE Split(s, "\n")

-----------------------------------------------------------------------------
(* redis_memtier_benchmark.py: the parts without side effects *)

\* the condition of the if statement of CheckPrerequisites
PrerequisitesViolated ==
  /\ Len(GetRedisPorts(FALSE)) >= 0
  /\ \/ Len(flags.memtier_pipeline) > 1
     \/ Len(flags.memtier_threads) > 1
     \/ Len(flags.memtier_clients) > 1

\* PortsGroupOfFour with the bug "the groups start every 3 ports"
PortsGroupOfFour_Overlapping(ports) ==
  LET starts == RangeStep(Len(ports), LOAD_GROUP_SIZE - 1)
  IN  [g \in 1..Len(starts) |->
         Slice(ports, starts[g], starts[g] + LOAD_GROUP_SIZE)]

\* ports_group_of_four of Prepare
PortsGroupOfFour(ports) ==
  LET starts == RangeStep(Len(ports), LOAD_GROUP_SIZE)
  IN  [g \in 1..Len(starts) |->
         Slice(ports, starts[g], starts[g] + LOAD_GROUP_SIZE)]

\* ParseTopRow with the bug "the first token is taken whatever follows it"
ParseTopRow_Lenient(row) ==
  LET line == Strip(row)
      columns == Split(line, ",")
  IN  IF Len(columns) < 4
        THEN [err |-> "IndexError", idle_value |-> <<>>]
        ELSE [err |-> "",
              idle_value |-> Split(Strip(columns[4]), " ")[1]]

\* one iteration of the loop of _GetTopResults, on row; err is "" or the
\* exception the iteration raises
ParseTopRow(row) ==
  LET line == Strip(row)
      columns == Split(line, ",")
  IN  IF Len(columns) < 4
        THEN [err |-> "IndexError", idle_value |-> <<>>]
        ELSE LET tokens == Split(Strip(columns[4]), " ")
             IN  IF Len(tokens) # 2
                   THEN [err |-> "ValueError", idle_value |-> <<>>]
                   ELSE [err |-> "", idle_value |-> tokens[1]]

TopSample(idle_value, row_index) ==
  [metric |-> "CPU Idle time",
   value |-> idle_value,
   unit |-> "%Cpu(s)",
   metadata |-> [time_series_sec |-> row_index,
                 cpu_idle_percent |-> idle_value]]

\* the loop of _GetTopResults over cpu_usage.splitlines(): the exception of
\* the first row that raises, else one sample per row
ParseTop(cpu_usage) ==
  LET rows == SplitLines(cpu_usage)
      parsed == [i \in 1..Len(rows) |-> ParseTopRow(rows[i])]
      bad == {i \in 1..Len(rows) : parsed[i].err # ""}
  IN  IF bad # {}
        THEN [err |-> parsed[CHOOSE i \in bad : \A j \in bad : i <= j].err,
              samples |-> <<>>]
        ELSE [err |-> "",
              samples |-> [i \in 1..Len(rows) |->
                             TopSample(parsed[i].idle_value, i - 1)]]

\* the loop of Run that annotates raw_results
Annotate(raw_results, redis_metadata, benchmark_metadata) ==
  [i \in 1..Len(raw_results) |->
     [raw_results[i] EXCEPT
        !.metadata = DictUpdate(DictUpdate(@, redis_metadata),
                                benchmark_metadata)]]

-----------------------------------------------------------------------------
(* Remote operations and the log of them *)

\* one remote operation: what, on which machine (group and list index),
\* with which integer argument and which redis-server arguments
Cmd(op, group, index, arg, args) ==
  [op |-> op, group |-> group, index |-> index, arg |-> arg, args |-> args]

ServerCmd(op, arg) == Cmd(op, "servers", 0, arg, <<>>)

NoDispatch ==
  [work |-> "none", targets |-> <<>>, max_concurrency |-> <<>>,
   status |-> <<>>]

NoLocals ==
  [update_sysvtl |-> FALSE, commit_sysvtl |-> FALSE, logged |-> FALSE,
   port_index |-> 0, ports |-> <<>>, ports_group_of_four |-> <<>>,
   group_index |-> 0, has_server_vm |-> FALSE, measure_cpu |-> FALSE,
   raw_results |-> <<>>, redis_metadata |-> <<>>]

NoPortsSeen ==
  [CheckPrerequisites |-> <<>>, Start |-> <<>>, Prepare |-> <<>>,
   Run |-> <<>>]

NoResult == [returned |-> FALSE, samples |-> <<>>]

\* a handler raises: the lifecycle stops there
Raise(name) ==
  /\ pc' = "failed"
  /\ error' = name

-----------------------------------------------------------------------------
(* background_tasks.RunThreaded *)

\* RunThreaded(work, targets, max_concurrency) is called: one thread per
\* target is queued
RunThreadedCall(work, targets, max_concurrency) ==
  /\ dispatch' = [work |-> work, targets |-> targets,
                  max_concurrency |-> max_concurrency,
                  status |-> [i \in 1..Len(targets) |-> "queued"]]
  /\ dispatch_log' = Append(dispatch_log,
                            [work |-> work, targets |-> targets,
                             max_concurrency |-> max_concurrency,
                             joined |-> FALSE])

Running == {i \in 1..Len(dispatch.status) : dispatch.status[i] = "running"}

Queued == {i \in 1..Len(dispatch.status) : dispatch.status[i] = "queued"}

Ceiling ==
  IF dispatch.max_concurrency = <<>>
    THEN Len(dispatch.targets)
    ELSE dispatch.max_concurrency[1]

AllThreadsFinished ==
  \A i \in 1..Len(dispatch.status) : dispatch.status[i] \in {"ok", "failed"}

AnyThreadFailed ==
  \E i \in 1..Len(dispatch.status) : dispatch.status[i] = "failed"

\* lambda client: client.Install('memtier'), on client_vms[index]
InstallMemtierWork(index) == Cmd("install_memtier", "clients", index, 0, <<>>)

\* lambda port: memtier.Load([client_vms[0]], bm_spec.redis_endpoint_ip, port)
LoadWork(port) == Cmd("memtier_load", "clients", 0, port, <<>>)

\* the next queued target starts when a slot is free; its work issues its
\* remote operation
ThreadStart ==
  /\ dispatch.work # "none"
  /\ Queued # {}
  /\ Cardinality(Running) < Ceiling
  /\ LET i == CHOOSE j \in Queued : \A k \in Queued : j <= k
     IN  /\ dispatch' = [dispatch EXCEPT !.status[i] = "running"]
         /\ remote_log' =
              Append(remote_log,
                     IF dispatch.work = "install_memtier"
                       THEN InstallMemtierWork(dispatch.targets[i])
                       ELSE LoadWork(dispatch.targets[i]))
  /\ UNCHANGED <<flags, vm, bm_spec, env, pc, error, locals, dispatch_log,
                 seen_ports, result>>

\* a running target completes, with or without an exception
ThreadFinish ==
  /\ \E i \in Running, outcome \in {"ok", "failed"} :
       dispatch' = [dispatch EXCEPT !.status[i] = outcome]
  /\ UNCHANGED <<flags, vm, bm_spec, env, pc, error, remote_log, locals,
                 dispatch_log, seen_ports, result>>

-----------------------------------------------------------------------------
(* CheckPrerequisites *)

CheckPrerequisites ==
  /\ pc = "CheckPrerequisites"
  /\ seen_ports' =
       [seen_ports EXCEPT !.CheckPrerequisites = <<GetRedisPorts(FALSE)>>]
  /\ IF PrerequisitesViolated
       THEN Raise("InvalidFlagConfigurationError")
       ELSE pc' = "Prepare" /\ error' = error
  /\ UNCHANGED <<flags, vm, bm_spec, env, remote_log, locals, dispatch,
                 dispatch_log, result>>

-----------------------------------------------------------------------------
(* Prepare, with redis_server.Start inlined at its call *)

\* Prepare_Enter with the bug "the server count is not checked"
Prepare_Enter_NoServerCheck ==
  /\ pc = "Prepare"
  /\ pc' = "Prepare_install_memtier"
  /\ RunThreadedCall("install_memtier",
                     Range(bm_spec.vm_groups.clients), <<>>)
  /\ UNCHANGED <<flags, vm, bm_spec, env, error, remote_log, locals,
                 seen_ports, result>>

\* the server count check and the call RunThreaded(Install('memtier'))
Prepare_Enter ==
  /\ pc = "Prepare"
  /\ IF bm_spec.vm_groups.servers # 1
       THEN /\ Raise("PrepareException")
            /\ UNCHANGED <<dispatch, dispatch_log>>
       ELSE /\ pc' = "Prepare_install_memtier"
            /\ error' = error
            /\ RunThreadedCall("install_memtier",
                               Range(bm_spec.vm_groups.clients), <<>>)
  /\ UNCHANGED <<flags, vm, bm_spec, env, remote_log, locals, seen_ports,
                 result>>

\* RunThreaded returns to Prepare once every thread has finished, raising
\* when one of them failed
RunThreadedReturn ==
  /\ dispatch.work # "none"
  /\ AllThreadsFinished
  /\ dispatch' = NoDispatch
  /\ dispatch_log' = [dispatch_log EXCEPT ![Len(dispatch_log)].joined = TRUE]
  /\ IF AnyThreadFailed
       THEN Raise("ThreadException") /\ locals' = locals
       ELSE /\ error' = error
            /\ IF dispatch.work = "install_memtier"
                 THEN pc' = "Prepare_install_redis" /\ locals' = locals
                 ELSE /\ pc' = "Prepare_load"
                      /\ locals' = [locals EXCEPT !.group_index = @ + 1]
  /\ UNCHANGED <<flags, vm, bm_spec, env, remote_log, seen_ports, result>>

\* server_vm.Install('redis_server')
Prepare_InstallRedis ==
  /\ pc = "Prepare_install_redis"
  /\ remote_log' = Append(remote_log, ServerCmd("install_redis_server", 0))
  /\ \E ok \in BOOLEAN :
       IF ok THEN pc' = "Start_mux" /\ error' = error
             ELSE Raise("RemoteCommandError")
  /\ UNCHANGED <<flags, vm, bm_spec, env, locals, dispatch, dispatch_log,
                 seen_ports, result>>

\* Start: vm.RemoteCommand('echo "MaxSessions ..." | sudo tee -a sshd_config')
Start_MaxSessions ==
  /\ pc = "Start_mux"
  /\ remote_log' =
       Append(remote_log,
              ServerCmd("max_sessions",
                        MUX_MULTIPLIER * _GetNumProcesses(TRUE)))
  /\ \E ok \in BOOLEAN :
       IF ok THEN pc' = "Start_update_sysctl" /\ error' = error
             ELSE Raise("RemoteCommandError")
  /\ UNCHANGED <<flags, vm, bm_spec, env, locals, dispatch, dispatch_log,
                 seen_ports, result>>

\* Start_UpdateSysctl with the bug "RemoteCommand instead of
\* TryRemoteCommand": a failure raises
Start_UpdateSysctl_Raises ==
  /\ pc = "Start_update_sysctl"
  /\ remote_log' = Append(remote_log, ServerCmd("sysctl_update", 0))
  /\ \E ok \in BOOLEAN :
       IF ok THEN /\ pc' = "Start_commit_sysctl"
                  /\ error' = error
                  /\ locals' = [locals EXCEPT !.update_sysvtl = TRUE]
             ELSE Raise("RemoteCommandError") /\ locals' = locals
  /\ UNCHANGED <<flags, vm, bm_spec, env, dispatch, dispatch_log,
                 seen_ports, result>>

\* Start: update_sysvtl = vm.TryRemoteCommand('... tee -a /etc/sysctl.conf')
Start_UpdateSysctl ==
  /\ pc = "Start_update_sysctl"
  /\ remote_log' = Append(remote_log, ServerCmd("sysctl_update", 0))
  /\ \E ok \in BOOLEAN : locals' = [locals EXCEPT !.update_sysvtl = ok]
  /\ pc' = "Start_commit_sysctl"
  /\ UNCHANGED <<flags, vm, bm_spec, env, error, dispatch, dispatch_log,
                 seen_ports, result>>

\* Start: commit_sysvtl = vm.TryRemoteCommand('sysctl -p'), the log line,
\* and the evaluation of GetRedisPorts(vm) for the loop
Start_CommitSysctl ==
  /\ pc = "Start_commit_sysctl"
  /\ remote_log' = Append(remote_log, ServerCmd("sysctl_commit", 0))
  /\ \E ok \in BOOLEAN :
       locals' = [locals EXCEPT
                    !.commit_sysvtl = ok,
                    !.logged = ~(locals.update_sysvtl /\ ok),
                    !.ports = GetRedisPorts(TRUE),
                    !.port_index = 0]
  /\ seen_ports' = [seen_ports EXCEPT !.Start = <<GetRedisPorts(TRUE)>>]
  /\ pc' = "Start_ports"
  /\ UNCHANGED <<flags, vm, bm_spec, env, error, dispatch, dispatch_log,
                 result>>

\* Start: one iteration of "for port in ...: vm.RemoteCommand(start command)"
Start_Port ==
  /\ pc = "Start_ports"
  /\ locals.port_index < Len(locals.ports)
  /\ LET port == locals.ports[locals.port_index + 1]
     IN  remote_log' =
           Append(remote_log,
                  Cmd("start_redis", "servers", 0, port,
                      _BuildStartCommand(port)))
  /\ \E ok \in BOOLEAN :
       IF ok THEN /\ pc' = pc
                  /\ error' = error
                  /\ locals' = [locals EXCEPT !.port_index = @ + 1]
             ELSE Raise("RemoteCommandError") /\ locals' = locals
  /\ UNCHANGED <<flags, vm, bm_spec, env, dispatch, dispatch_log,
                 seen_ports, result>>

\* Start has returned: Prepare sets redis_endpoint_ip, computes the port
\* groups and asserts the endpoint ip
Prepare_Ports ==
  /\ pc = "Start_ports"
  /\ locals.port_index = Len(locals.ports)
  /\ bm_spec' = [bm_spec EXCEPT !.redis_endpoint_ip = vm.internal_ip]
  /\ seen_ports' = [seen_ports EXCEPT !.Prepare = <<GetRedisPorts(TRUE)>>]
  /\ locals' = [locals EXCEPT
                  !.ports = GetRedisPorts(TRUE),
                  !.ports_group_of_four =
                     PortsGroupOfFour(GetRedisPorts(TRUE)),
                  !.group_index = 0]
  /\ IF vm.internal_ip = ""
       THEN Raise("AssertionError")
       ELSE pc' = "Prepare_load" /\ error' = error
  /\ UNCHANGED <<flags, vm, env, remote_log, dispatch, dispatch_log,
                 result>>

\* one iteration of "for ports_group in ports_group_of_four": the call
\* RunThreaded(memtier.Load, ports_group, 10)
Prepare_LoadGroup ==
  /\ pc = "Prepare_load"
  /\ dispatch.work = "none"
  /\ locals.group_index < Len(locals.ports_group_of_four)
  /\ RunThreadedCall("memtier_load",
                     locals.ports_group_of_four[locals.group_index + 1],
                     <<LOAD_MAX_CONCURRENCY>>)
  /\ UNCHANGED <<flags, vm, bm_spec, env, pc, error, remote_log, locals,
                 seen_ports, result>>

\* the loop over the port groups is exhausted: Prepare returns
Prepare_Return ==
  /\ pc = "Prepare_load"
  /\ dispatch.work = "none"
  /\ locals.group_index = Len(locals.ports_group_of_four)
  /\ pc' = "Run"
  /\ UNCHANGED <<flags, vm, bm_spec, env, error, remote_log, locals,
                 dispatch, dispatch_log, seen_ports, result>>

-----------------------------------------------------------------------------
(* _GetTopResults and Run *)

\* _GetTopResults(server_vm): the exception it raises ("" when none), the
\* samples it returns and the remote operations it issues; grep_ok is
\* whether the RemoteCommand('grep Cpu top.txt') succeeds
_GetTopResults(grep_ok) ==
  IF ~flags.redis_memtier_measure_cpu
    THEN [err |-> "", samples |-> <<>>, issued |-> <<>>]
    ELSE IF ~grep_ok
           THEN [err |-> "RemoteCommandError", samples |-> <<>>,
                 issued |-> <<ServerCmd("grep_top", 0)>>]
           ELSE [err |-> ParseTop(env.cpu_usage).err,
                 samples |-> ParseTop(env.cpu_usage).samples,
                 issued |-> <<ServerCmd("grep_top", 0)>>]

\* _GetTopResults called on its own
GetTopResults_Call ==
  /\ pc = "GetTopResults"
  /\ \E grep_ok \in BOOLEAN :
       LET r == _GetTopResults(grep_ok)
       IN  /\ remote_log' = remote_log \o r.issued
           /\ IF r.err # ""
                THEN Raise(r.err) /\ result' = result
                ELSE /\ pc' = "done"
                     /\ error' = error
                     /\ result' = [returned |-> TRUE, samples |-> r.samples]
  /\ UNCHANGED <<flags, vm, bm_spec, env, locals, dispatch, dispatch_log,
                 seen_ports>>

\* Run up to its first remote operation: the server_vm lookup, the
\* measure_cpu_on_server_vm test and the RemoteCommand that writes the script
Run_Enter ==
  /\ pc = "Run"
  /\ LET has_server_vm == bm_spec.vm_groups.has_servers
         measure == has_server_vm /\ flags.redis_memtier_measure_cpu
     IN  /\ locals' = [NoLocals EXCEPT !.has_server_vm = has_server_vm,
                                        !.measure_cpu = measure]
         /\ IF measure
              THEN /\ remote_log' =
                        Append(remote_log, ServerCmd("top_script_write", 0))
                   /\ \E ok \in BOOLEAN :
                        IF ok THEN pc' = "Run_top_start" /\ error' = error
                              ELSE Raise("RemoteCommandError")
              ELSE /\ remote_log' = remote_log
                   /\ pc' = "Run_memtier"
                   /\ error' = error
  /\ UNCHANGED <<flags, vm, bm_spec, env, dispatch, dispatch_log,
                 seen_ports, result>>

\* server_vm.RemoteCommand('bash top_script.sh')
Run_TopStart ==
  /\ pc = "Run_top_start"
  /\ remote_log' = Append(remote_log, ServerCmd("top_script_run", 0))
  /\ \E ok \in BOOLEAN :
       IF ok THEN pc' = "Run_memtier" /\ error' = error
             ELSE Raise("RemoteCommandError")
  /\ UNCHANGED <<flags, vm, bm_spec, env, locals, dispatch, dispatch_log,
                 seen_ports, result>>

\* GetMetadata(server_vm) raises when _GetIOThreads is reached with no vm
GetMetadataRaises(hasVm) ==
  VersionSupportsIOThreads /\ GetIOThreadsRaises(hasVm)

\* the assert, memtier.RunOverAllThreadsPipelinesAndClients(client_vms, ip,
\* GetRedisPorts(server_vm)) and redis_server.GetMetadata(server_vm)
Run_Memtier ==
  /\ pc = "Run_memtier"
  /\ IF bm_spec.redis_endpoint_ip = ""
       THEN /\ Raise("AssertionError")
            /\ UNCHANGED <<remote_log, locals, seen_ports>>
       ELSE /\ seen_ports' =
                 [seen_ports EXCEPT
                    !.Run = <<GetRedisPorts(locals.has_server_vm)>>]
            /\ remote_log' =
                 Append(remote_log,
                        Cmd("memtier_run", "clients", 0,
                            Len(GetRedisPorts(locals.has_server_vm)), <<>>))
            /\ \E ok \in BOOLEAN :
                 IF ~ok
                   THEN Raise("RemoteCommandError") /\ locals' = locals
                   ELSE IF GetMetadataRaises(locals.has_server_vm)
                          THEN /\ Raise("AttributeError")
                               /\ locals' = [locals EXCEPT
                                    !.raw_results = env.memtier_output]
                          ELSE /\ pc' = "Run_top_results"
                               /\ error' = error
                               /\ locals' = [locals EXCEPT
                                    !.raw_results = env.memtier_output,
                                    !.redis_metadata =
                                       GetMetadata(locals.has_server_vm)]
  /\ UNCHANGED <<flags, vm, bm_spec, env, dispatch, dispatch_log, result>>

\* RunReturnValue with the bug "the CPU samples come first"
RunReturnValue_AuxiliaryFirst(raw_results, redis_metadata, top_results) ==
  top_results \o Annotate(raw_results, redis_metadata, <<>>)

\* "return raw_results + top_results" after the metadata updates
RunReturnValue(raw_results, redis_metadata, top_results) ==
  Annotate(raw_results, redis_metadata, <<>>) \o top_results

\* the call of _GetTopResults when measuring, the metadata updates and the
\* return
Run_TopResults ==
  /\ pc = "Run_top_results"
  /\ \E grep_ok \in BOOLEAN :
       LET r == IF locals.measure_cpu
                  THEN _GetTopResults(grep_ok)
                  ELSE [err |-> "", samples |-> <<>>, issued |-> <<>>]
       IN  /\ remote_log' = remote_log \o r.issued
           /\ IF r.err # ""
                THEN Raise(r.err) /\ result' = result
                ELSE /\ pc' = "done"
                     /\ error' = error
                     /\ result' =
                          [returned |-> TRUE,
                           samples |-> RunReturnValue(locals.raw_results,
                                                      locals.redis_metadata,
                                                      r.samples)]
  /\ UNCHANGED <<flags, vm, bm_spec, env, locals, dispatch, dispatch_log,
                 seen_ports>>

-----------------------------------------------------------------------------
(* Inputs *)

V_6_2_1 == <<"6", ".", "2", ".", "1">>
V_6_10_0 == <<"6", ".", "1", "0", ".", "0">>
V_5_0_5 == <<"5", ".", "0", ".", "5">>
V_7_0_0 == <<"7", ".", "0", ".", "0">>

Versions == {V_6_2_1, V_6_10_0, V_5_0_5, V_7_0_0}

\* the flag defaults, with redis_server_io_threads as BENCHMARK_CONFIG sets it
DefaultFlags ==
  [redis_total_num_processes |-> 1,
   redis_server_io_threads |-> <<0>>,
   redis_server_version |-> V_6_2_1,
   redis_server_io_threads_do_reads |-> FALSE,
   redis_server_io_threads_cpu_affinity |-> FALSE,
   redis_server_enable_snapshots |-> FALSE,
   redis_eviction_policy |-> "noeviction",
   redis_aof |-> FALSE,
   redis_memtier_measure_cpu |-> FALSE,
   memtier_pipeline |-> <<1>>,
   memtier_threads |-> <<4>>,
   memtier_clients |-> <<50>>]

\* the lists of 1..MaxSettings values a memtier list flag can hold
SettingLists == {[i \in 1..n |-> i] : n \in 1..MaxSettings}

DefaultVm ==
  [num_cpus |-> 2, threads_per_core |-> 1, total_memory_kb |-> 1005,
   internal_ip |-> "10.0.0.2"]

RawSample(i, metadata) ==
  [metric |-> "Ops Throughput", value |-> i, unit |-> "ops/s",
   metadata |-> metadata]

\* metadata of a raw sample: memtier's own keys, with or without keys that
\* GetMetadata also produces
RawMetadataChoices ==
  {[memtier_threads |-> 4],
   [memtier_threads |-> 4, redis_server_num_processes |-> 99],
   [redis_server_version |-> V_5_0_5, redis_aof |-> TRUE]}

\* what the memtier sweep returns: up to MaxRawSamples samples, the i-th
\* with value i
RawResultChoices ==
  UNION {{[i \in 1..n |-> RawSample(i, ms[i])] :
            ms \in [1..n -> RawMetadataChoices]} : n \in 0..MaxRawSamples}

\* a summary line as top prints it: 'Cpu(s)' is followed by a colon
TopSummaryRow ==
  <<"%", "C", "p", "u", "(", "s", ")", ":", " ", " ", "2", ".", "1", " ",
    "u", "s", ",", " ", " ", "1", ".", "0", " ", "s", "y", ",", " ", " ",
    "0", ".", "0", " ", "n", "i", ",", " ", "9", "6", ".", "9", " ", "i",
    "d", ",", " ", " ", "0", ".", "0", " ", "w", "a">>

\* the line of the documented scenario: 'Cpu(s)' is followed by a comma, so
\* that ' 0.0 ni' is its fourth comma-delimited field
ScenarioRow ==
  <<"C", "p", "u", "(", "s", ")", ",", " ", " ", "2", ".", "1", " ", "u",
    "s", ",", " ", " ", "1", ".", "0", " ", "s", "y", ",", " ", " ", "0",
    ".", "0", " ", "n", "i", ",", " ", "9", "6", ".", "9", " ", "i", "d",
    ",">>

\* fourth fields: well formed, one token, three tokens, two spaces, padded,
\* empty
Field4Choices ==
  {<<"9", " ", "i">>, <<"9", "8", " ", "i">>, <<" ", "7", " ", "i", " ">>,
   <<"9">>, <<"9", " ", "i", " ", "d">>, <<"9", " ", " ", "i">>, <<>>}

\* rows with k commas before the fourth field's text
Commas(k) == [i \in 1..k |-> ","]

TopRows ==
  {TopSummaryRow, ScenarioRow}
  \cup {Commas(k) \o f : k \in {2, 3}, f \in Field4Choices}
  \cup {Commas(3) \o f \o <<",", "x">> : f \in Field4Choices}

\* the text printed by grep: every row ends with a newline
RECURSIVE JoinLines(_)
JoinLines(rows) ==
  IF rows = <<>> THEN <<>>
  ELSE Head(rows) \o <<"\n">> \o JoinLines(Tail(rows))

TopOutputs ==
  {JoinLines(rows) : rows \in UNION {[1..n -> TopRows] : n \in 0..MaxRows}}

DefaultEnv ==
  [memtier_output |-> <<RawSample(1, [memtier_threads |-> 4])>>,
   cpu_usage |-> JoinLines(<<TopSummaryRow, TopSummaryRow>>)]

-----------------------------------------------------------------------------
(* Initial states *)

NumCpuChoices == {1, 8}

MemoryChoices == {0, 7, 1005}

BmSpec(has_servers, servers, clients, ip) ==
  [vm_groups |-> [has_servers |-> has_servers, servers |-> servers,
                  clients |-> clients],
   redis_endpoint_ip |-> ip]

\* nothing has run yet
Fresh ==
  /\ error = ""
  /\ remote_log = <<>>
  /\ locals = NoLocals
  /\ dispatch = NoDispatch
  /\ dispatch_log = <<>>
  /\ seen_ports = NoPortsSeen
  /\ result = NoResult

\* the lifecycle from CheckPrerequisites, over process counts, machine sizes,
\* group sizes and memtier list lengths
Init ==
  /\ flags \in {[DefaultFlags EXCEPT !.redis_total_num_processes = n,
                                     !.memtier_pipeline = p,
                                     !.memtier_threads = t,
                                     !.memtier_clients = c,
                                     !.redis_memtier_measure_cpu = m] :
                  n \in 0..MaxProcesses, p \in SettingLists,
                  t \in SettingLists, c \in SettingLists, m \in BOOLEAN}
  /\ vm \in {[DefaultVm EXCEPT !.num_cpus = c, !.total_memory_kb = k,
                                !.internal_ip = ip] :
               c \in NumCpuChoices, k \in MemoryChoices,
               ip \in {"", "10.0.0.2"}}
  /\ bm_spec \in {BmSpec(TRUE, s, c, "") :
                    s \in 0..2, c \in 1..MaxClientVms}
  /\ env = DefaultEnv
  /\ pc = "CheckPrerequisites"
  /\ Fresh

\* the lifecycle from CheckPrerequisites, over the flags and machine facts
\* that _GetIOThreads and _BuildStartCommand read
InitFlags ==
  /\ flags \in {[DefaultFlags EXCEPT !.redis_total_num_processes = n,
                                     !.redis_server_io_threads = io,
                                     !.redis_server_version = v,
                                     !.redis_memtier_measure_cpu = m] :
                  n \in 0..2, io \in {<<>>, <<0>>, <<1>>, <<3>>},
                  v \in Versions, m \in BOOLEAN}
  /\ vm \in {[DefaultVm EXCEPT !.num_cpus = c, !.threads_per_core = t] :
               c \in {1, 2, 4, 7}, t \in {1, 2}}
  /\ bm_spec = BmSpec(TRUE, 1, 1, "")
  /\ env = DefaultEnv
  /\ pc = "CheckPrerequisites"
  /\ Fresh

\* Run after this benchmark's Prepare (from CheckPrerequisites) and Run as
\* reused by a benchmark whose vm_groups has no 'servers' (from Run), over
\* what memtier and top answer
InitRun ==
  /\ flags \in {[DefaultFlags EXCEPT !.redis_total_num_processes = n,
                                     !.redis_server_io_threads = io,
                                     !.redis_server_version = v,
                                     !.redis_memtier_measure_cpu = m] :
                  n \in 0..2, io \in {<<>>, <<2>>},
                  v \in {V_6_2_1, V_5_0_5}, m \in BOOLEAN}
  /\ vm = DefaultVm
  /\ env \in {[memtier_output |-> raw, cpu_usage |-> JoinLines(rows)] :
                raw \in RawResultChoices,
                rows \in {<<>>,
                          <<TopSummaryRow, Commas(3) \o <<"9", " ", "i">>>>,
                          <<TopSummaryRow, <<"9">>>>}}
  /\ \/ bm_spec = BmSpec(TRUE, 1, 1, "") /\ pc = "CheckPrerequisites"
     \/ bm_spec = BmSpec(FALSE, 0, 1, "10.0.0.9") /\ pc = "Run"
  /\ Fresh

\* _GetTopResults on its own, over the captured output
InitTop ==
  /\ flags \in {[DefaultFlags EXCEPT !.redis_memtier_measure_cpu = m] :
                  m \in BOOLEAN}
  /\ vm = DefaultVm
  /\ bm_spec = BmSpec(TRUE, 1, 1, "10.0.0.2")
  /\ env \in {[DefaultEnv EXCEPT !.cpu_usage = out] : out \in TopOutputs}
  /\ pc = "GetTopResults"
  /\ Fresh

-----------------------------------------------------------------------------
(* Specifications *)

Next ==
  \/ CheckPrerequisites
  \/ Prepare_Enter
  \/ ThreadStart
  \/ ThreadFinish
  \/ RunThreadedReturn
  \/ Prepare_InstallRedis
  \/ Start_MaxSessions
  \/ Start_UpdateSysctl
  \/ Start_CommitSysctl
  \/ Start_Port
  \/ Prepare_Ports
  \/ Prepare_LoadGroup
  \/ Prepare_Return
  \/ Run_Enter
  \/ Run_TopStart
  \/ Run_Memtier
  \/ Run_TopResults

NextTop == GetTopResults_Call

Spec == Init /\ [][Next]_vars

SpecFlags == InitFlags /\ [][Next]_vars

SpecRun == InitRun /\ [][Next]_vars

SpecTop == InitTop /\ [][NextTop]_vars

-----------------------------------------------------------------------------
(* Observations used by the properties *)

\* the entries of remote_log with operation op, in issue order
OpsOf(op) ==
  LET Test(e) == e.op = op IN SelectSeq(remote_log, Test)

\* the positions of remote_log with operation op
IndexesOf(op) == {i \in 1..Len(remote_log) : remote_log[i].op = op}

\* the RunThreaded calls made for memtier.Load, in call order
LoadDispatches ==
  LET Test(d) == d.work = "memtier_load" IN SelectSeq(dispatch_log, Test)

\* the process count the spec derives for a provisioned server machine
DerivedProcessCount ==
  IF flags.redis_total_num_processes > 0
    THEN flags.redis_total_num_processes
    ELSE vm.num_cpus

\* PortSet(base, N) of the spec
PortSet(n) == [i \in 1..n |-> DEFAULT_PORT + (i - 1)]

CheckPrerequisitesHasRun == seen_ports.CheckPrerequisites # <<>>

SweepConfigured ==
  \/ Len(flags.memtier_pipeline) > 1
  \/ Len(flags.memtier_threads) > 1
  \/ Len(flags.memtier_clients) > 1

-----------------------------------------------------------------------------
(* C1 *)

\* C1: CheckPrerequisites raises the configuration error exactly when more
\* than one endpoint is configured and one of the pipeline, thread and client
\* lists has more than one value; with at most one endpoint it returns
\* without error whatever the lengths of the lists.
C1_RaisesOnlyForMultiEndpointSweep ==
  CheckPrerequisitesHasRun =>
    ((error = "InvalidFlagConfigurationError")
       <=> (Len(seen_ports.CheckPrerequisites[1]) > 1 /\ SweepConfigured))

-----------------------------------------------------------------------------
(* C2 *)

\* the --maxmemory values of the start commands issued so far
MaxMemoryValues ==
  [i \in 1..Len(OpsOf("start_redis")) |->
     ArgValue(OpsOf("start_redis")[i].args, "--maxmemory")]

RECURSIVE SumSeq(_)
SumSeq(s) == IF s = <<>> THEN 0 ELSE Head(s) + SumSeq(Tail(s))

\* floor(total_memory_kb * 0.9), as floor(9 * total / 10)
NinetyPercent == (9 * vm.total_memory_kb) \div 10

\* C2: every start command carries --maxmemory floor(total_memory_kb * 0.9 /
\* N) for the derived process count N, and once Start has issued the N start
\* commands their sum is at most floor(total_memory_kb * 0.9) and falls short
\* of it by at most N.
C2_MaxMemoryPartition ==
  LET n == DerivedProcessCount
      values == MaxMemoryValues
  IN  /\ \A i \in 1..Len(values) :
           /\ values[i] * 10 * n <= 9 * vm.total_memory_kb
           /\ (values[i] + 1) * 10 * n > 9 * vm.total_memory_kb
      /\ Len(values) = n =>
           /\ SumSeq(values) <= NinetyPercent
           /\ NinetyPercent - SumSeq(values) <= n

\* Start has issued all its start commands on a machine where the integer
\* division loses memory: three instances, 1005 kB
C2_Witness ==
  /\ DerivedProcessCount = 3
  /\ Len(MaxMemoryValues) = 3
  /\ vm.total_memory_kb = 1005
  /\ SumSeq(MaxMemoryValues) < NinetyPercent

-----------------------------------------------------------------------------
(* C6 *)

\* C6: GetRedisPorts returns exactly [base, ..., base+N-1] with N the
\* override when it is > 0 and the machine's usable CPU count when it is 0,
\* so every caller within one run (CheckPrerequisites, Start, Prepare's load
\* phase, Run) sees the same port set.
C6_EveryCallerSeesDerivedPortSet ==
  \A site \in DOMAIN seen_ports :
    seen_ports[site] # <<>> =>
      seen_ports[site][1] = PortSet(DerivedProcessCount)

\* C6 as amended: with a machine (Start, Prepare, Run with a server group)
\* the result is [base, ..., base+N-1] for N the override when > 0 and the
\* CPU count when 0; without a machine (CheckPrerequisites, Run without a
\* server group) N is the override itself, so the result is empty when the
\* override is 0.
C6_PortSetPerCallSite ==
  /\ seen_ports.Start # <<>> =>
       seen_ports.Start[1] = PortSet(DerivedProcessCount)
  /\ seen_ports.Prepare # <<>> =>
       seen_ports.Prepare[1] = PortSet(DerivedProcessCount)
  /\ seen_ports.Run # <<>> =>
       seen_ports.Run[1] =
         PortSet(IF bm_spec.vm_groups.has_servers
                   THEN DerivedProcessCount
                   ELSE flags.redis_total_num_processes)
  /\ seen_ports.CheckPrerequisites # <<>> =>
       seen_ports.CheckPrerequisites[1] =
         PortSet(flags.redis_total_num_processes)

\* a run with override 0 in which all four call sites were reached:
\* CheckPrerequisites saw no port, the others the CPU count's ports
C6_Witness ==
  /\ flags.redis_total_num_processes = 0
  /\ seen_ports.CheckPrerequisites = <<<<>>>>
  /\ seen_ports.Start = <<PortSet(vm.num_cpus)>>
  /\ seen_ports.Prepare = <<PortSet(vm.num_cpus)>>
  /\ seen_ports.Run = <<PortSet(vm.num_cpus)>>
  /\ vm.num_cpus >= 2

-----------------------------------------------------------------------------
(* C4 *)

LastOp == IF remote_log = <<>> THEN "" ELSE remote_log[Len(remote_log)].op

\* the ports of the start commands issued so far, in issue order
StartedPorts ==
  [i \in 1..Len(OpsOf("start_redis")) |-> OpsOf("start_redis")[i].arg]

\* the sysctl update is followed by the sysctl commit
SysctlCommitAttempted ==
  \A i \in IndexesOf("sysctl_update") :
    IF i = Len(remote_log)
      THEN pc = "Start_commit_sysctl"
      ELSE remote_log[i + 1].op = "sysctl_commit"

\* the sshd_config write is followed by the sysctl update
SysctlUpdateAttempted ==
  \A i \in IndexesOf("max_sessions") :
    IF i = Len(remote_log)
      THEN pc = "Start_update_sysctl"
      ELSE remote_log[i + 1].op = "sysctl_update"

\* the sysctl commit is followed by the start command of the first port, the
\* start commands follow the port set in order, and only a failing start
\* command keeps the rest from being issued
StartCommandsFollow ==
  /\ \A i \in IndexesOf("sysctl_commit") :
       IF i = Len(remote_log)
         THEN pc = "Start_ports"
         ELSE /\ remote_log[i + 1].op = "start_redis"
              /\ remote_log[i + 1].arg = DEFAULT_PORT
  /\ Len(StartedPorts) <= DerivedProcessCount
  /\ StartedPorts = PortSet(Len(StartedPorts))
  /\ (IndexesOf("sysctl_commit") # {}
        /\ Len(StartedPorts) < DerivedProcessCount)
       => \/ pc = "Start_ports"
          \/ pc = "failed" /\ LastOp = "start_redis"

\* C4: the sshd_config write and the sysctl update/commit of Start are
\* non-fatal: whatever their outcome each of them is attempted, Start raises
\* no error because of them, and the start command of every port is issued
\* afterwards.
C4_TuningNeverFatal ==
  /\ pc = "failed" =>
       LastOp \notin {"max_sessions", "sysctl_update", "sysctl_commit"}
  /\ SysctlUpdateAttempted
  /\ SysctlCommitAttempted
  /\ StartCommandsFollow

\* C4 as amended: the sysctl update and the sysctl commit are non-fatal:
\* whatever their outcome both are attempted, Start raises no error because
\* of them, and the start commands are then issued in port order until the
\* port set is exhausted or a start command itself fails.  (The sshd_config
\* write is not among them: its failure ends Start.)
C4_SysctlNeverFatal ==
  /\ pc = "failed" => LastOp \notin {"sysctl_update", "sysctl_commit"}
  /\ SysctlCommitAttempted
  /\ StartCommandsFollow

\* both sysctl operations failed, the failure was logged, and every start
\* command of a three-port set has been issued
C4_Witness ==
  /\ pc = "Start_ports"
  /\ ~locals.update_sysvtl
  /\ ~locals.commit_sysvtl
  /\ locals.logged
  /\ DerivedProcessCount = 3
  /\ StartedPorts = PortSet(3)

-----------------------------------------------------------------------------
(* C7 *)

\* the number of load batches for n ports: ceil(n / 4)
BatchCount(n) == (n + 3) \div 4

\* the g-th batch of 4 consecutive ports of PortSet(n)
Batch(n, g) ==
  LET last == IF 4 * g < n THEN 4 * g ELSE n
  IN  [i \in 1..(last - 4 * (g - 1)) |-> DEFAULT_PORT + 4 * (g - 1) + (i - 1)]

RECURSIVE Concat(_)
Concat(ss) == IF ss = <<>> THEN <<>> ELSE Head(ss) \o Concat(Tail(ss))

\* how many preload jobs were started for port
LoadJobsFor(port) ==
  Cardinality({i \in IndexesOf("memtier_load") : remote_log[i].arg = port})

\* C7: the load phase partitions the N ports into ceil(N/4) consecutive
\* batches, all but possibly the last of exactly 4 ports, whose concatenation
\* is the port list; each batch is dispatched once with concurrency ceiling
\* 10, every preload job targets the first client machine only, every port
\* is preloaded once, and no job of a batch starts before every job of the
\* batch before it has completed.
C7_LoadBatches ==
  LET n == DerivedProcessCount
      d == LoadDispatches
  IN  /\ Len(d) <= BatchCount(n)
      /\ \A g \in 1..Len(d) :
           /\ d[g].targets = Batch(n, g)
           /\ d[g].max_concurrency = <<10>>
           /\ g < BatchCount(n) => Len(d[g].targets) = 4
      /\ \A i \in IndexesOf("memtier_load") :
           /\ remote_log[i].group = "clients"
           /\ remote_log[i].index = 0
           /\ LET g == ((remote_log[i].arg - DEFAULT_PORT) \div 4) + 1
              IN  /\ g <= Len(d)
                  /\ \A h \in 1..(g - 1) : d[h].joined
      /\ \A i \in 1..n : LoadJobsFor(PortSet(n)[i]) <= 1
      /\ pc = "Run" =>
           /\ Len(d) = BatchCount(n)
           /\ Concat([g \in 1..Len(d) |-> d[g].targets]) = PortSet(n)
           /\ \A i \in 1..n : LoadJobsFor(PortSet(n)[i]) = 1
           /\ Cardinality(IndexesOf("memtier_load")) = n

\* Prepare has returned after loading 8 ports in 2 batches of 4, with two
\* client machines in the group
C7_Witness ==
  /\ pc = "Run"
  /\ DerivedProcessCount = 8
  /\ bm_spec.vm_groups.clients = 2
  /\ Len(LoadDispatches) = 2
  /\ Len(LoadDispatches[1].targets) = 4
  /\ Len(LoadDispatches[2].targets) = 4

-----------------------------------------------------------------------------
(* C10 *)

\* C10: when Prepare completes, every port of the derived port set has
\* received exactly one start command and exactly one preload job; start
\* commands are issued in ascending port order and every one of them before
\* the first preload job; when the server group does not hold exactly one
\* machine, Prepare fails before any remote operation is issued.
C10_PrepareOrder ==
  LET n == DerivedProcessCount
  IN  /\ StartedPorts = PortSet(Len(StartedPorts))
      /\ \A j \in IndexesOf("memtier_load") :
           Cardinality({i \in IndexesOf("start_redis") : i < j}) = n
      /\ pc = "Run" =>
           /\ StartedPorts = PortSet(n)
           /\ \A i \in 1..n : LoadJobsFor(PortSet(n)[i]) = 1
           /\ Cardinality(IndexesOf("memtier_load")) = n
      /\ bm_spec.vm_groups.servers # 1 =>
           /\ remote_log = <<>>
           /\ dispatch_log = <<>>
           /\ pc \in {"CheckPrerequisites", "Prepare", "failed"}
           /\ pc = "failed" =>
                error \in {"InvalidFlagConfigurationError",
                           "PrepareException"}

\* Prepare has returned for a five-port set
C10_Witness ==
  /\ pc = "Run"
  /\ DerivedProcessCount = 5
  /\ StartedPorts = PortSet(5)
  /\ Cardinality(IndexesOf("memtier_load")) = 5

-----------------------------------------------------------------------------
(* C5 *)

\* the I/O thread count the spec derives: the override when one is given,
\* else usable_CPUs - 1 for one thread per core and usable_CPUs // 2 otherwise
SpecIOThreads ==
  IF flags.redis_server_io_threads # <<>>
    THEN flags.redis_server_io_threads[1]
    ELSE IF vm.threads_per_core = 1
           THEN vm.num_cpus - 1
           ELSE vm.num_cpus \div 2

\* C5: _GetIOThreads returns the explicit override whenever one is given,
\* 0 included, and otherwise usable_CPUs - 1 when threads-per-core is 1 and
\* usable_CPUs // 2 when it is not: every start command that carries
\* --io-threads carries that value.
C5_IOThreadsOverrideOrDerived ==
  \A i \in IndexesOf("start_redis") :
    HasArg(remote_log[i].args, "--io-threads") =>
      ArgValue(remote_log[i].args, "--io-threads") = SpecIOThreads

-----------------------------------------------------------------------------
(* C3 *)

\* C3: merging the store metadata into a raw sample never changes the value
\* of a key the sample already had.
C3_MergeNeverOverwrites ==
  pc = "done" =>
    \A i \in 1..Len(env.memtier_output) :
      \A k \in DOMAIN env.memtier_output[i].metadata :
        result.samples[i].metadata[k] = env.memtier_output[i].metadata[k]

\* C3 as amended: the merge is dict.update: every key of the store metadata
\* is set on the sample to the store's value, also when the sample already
\* had the key with another value; the sample's other keys keep their
\* values, and no other key is added.
C3_MergeIsUpdate ==
  pc = "done" =>
    /\ Len(result.samples) >= Len(env.memtier_output)
    /\ locals.redis_metadata.redis_server_num_processes =
         (IF bm_spec.vm_groups.has_servers
            THEN DerivedProcessCount
            ELSE flags.redis_total_num_processes)
    /\ locals.redis_metadata.redis_server_version =
         flags.redis_server_version
    /\ \A i \in 1..Len(env.memtier_output) :
         LET before == env.memtier_output[i].metadata
             after == result.samples[i].metadata
             store == locals.redis_metadata
         IN  /\ DOMAIN after = (DOMAIN before) \cup (DOMAIN store)
             /\ \A k \in DOMAIN store : after[k] = store[k]
             /\ \A k \in (DOMAIN before) \ (DOMAIN store) :
                  after[k] = before[k]

\* Run returned a sample that came with redis_server_num_processes = 99 and
\* now carries the store's value
C3_Witness ==
  /\ pc = "done"
  /\ Len(env.memtier_output) >= 1
  /\ "redis_server_num_processes" \in DOMAIN env.memtier_output[1].metadata
  /\ "memtier_threads" \in DOMAIN result.samples[1].metadata
  /\ result.samples[1].metadata.redis_server_num_processes # 99

-----------------------------------------------------------------------------
(* C8 *)

AuxiliaryOps == {"top_script_write", "top_script_run", "grep_top"}

AuxiliaryIssued == \E i \in 1..Len(remote_log) : remote_log[i].op \in AuxiliaryOps

\* C8: Run returns the annotated raw samples in their original order followed
\* by the CPU samples in their production order; when CPU measurement was not
\* requested or the spec has no server machine, no auxiliary remote command
\* is issued and the returned sequence is the annotated raw samples, with the
\* same length and order.
C8_RunReturnsRawThenAuxiliary ==
  LET raw == env.memtier_output
      n == Len(env.memtier_output)
      out == result.samples
  IN  /\ (~flags.redis_memtier_measure_cpu \/ ~bm_spec.vm_groups.has_servers)
           => ~AuxiliaryIssued
      /\ pc = "done" =>
           /\ Len(out) >= n
           /\ \A i \in 1..n :
                /\ out[i].metric = raw[i].metric
                /\ out[i].value = raw[i].value
                /\ out[i].unit = raw[i].unit
                /\ \A k \in DOMAIN raw[i].metadata : k \in DOMAIN out[i].metadata
           /\ \A j \in 1..(Len(out) - n) :
                /\ out[n + j].metric = "CPU Idle time"
                /\ out[n + j].metadata.time_series_sec = j - 1
           /\ (~flags.redis_memtier_measure_cpu
                 \/ ~bm_spec.vm_groups.has_servers) => Len(out) = n
           /\ (flags.redis_memtier_measure_cpu
                 /\ bm_spec.vm_groups.has_servers) =>
                Len(out) = n + Len(SplitLines(env.cpu_usage))

\* Run returned two raw samples and nothing else, with CPU measurement
\* requested but no server machine in the spec
C8_Witness ==
  /\ pc = "done"
  /\ flags.redis_memtier_measure_cpu
  /\ ~bm_spec.vm_groups.has_servers
  /\ Len(env.memtier_output) = 2
  /\ Len(result.samples) = 2
  /\ Len(SplitLines(env.cpu_usage)) = 2

-----------------------------------------------------------------------------
(* C9 *)

\* the positions of the commas of row
CommaPositions(row) == {i \in 1..Len(row) : row[i] = ","}

\* the fourth comma-delimited field of row, as the positions strictly
\* between its third comma and its fourth comma (or the end of the row)
FourthFieldPositions(row) ==
  LET commas == CommaPositions(row)
      third == CHOOSE c \in commas :
                 Cardinality({d \in commas : d < c}) = 2
      after == {c \in commas : c > third}
      stop == IF after = {} THEN Len(row) + 1
              ELSE CHOOSE c \in after : \A d \in after : c <= d
  IN  {i \in 1..Len(row) : third < i /\ i < stop}

\* the positions of the fourth field without its leading and trailing blanks
TrimmedFourthField(row) ==
  LET field == FourthFieldPositions(row)
      solid == {i \in field : row[i] # " "}
  IN  {i \in field : (\E a \in solid : a <= i) /\ (\E b \in solid : i <= b)}

\* row follows the format: at least four comma-delimited fields, the fourth
\* being '<value> <label>' with exactly one blank
FollowsFormat(row) ==
  /\ Cardinality(CommaPositions(row)) >= 3
  /\ Cardinality({i \in TrimmedFourthField(row) : row[i] = " "}) = 1

\* the <value> of a row that follows the format
IdleValueOf(row) ==
  LET field == TrimmedFourthField(row)
      blank == CHOOSE i \in field : row[i] = " "
      first == CHOOSE i \in field : \A j \in field : i <= j
  IN  SubSeq(row, first, blank - 1)

\* C9: for captured output of L lines that all follow the format
\* _GetTopResults returns exactly L samples named 'CPU Idle time', the i-th
\* with time_series_sec = i and the value of the fourth field's first token
\* as value and cpu_idle_percent; if any line is malformed the call fails
\* and returns no samples.
C9_TopParsingIsStrict ==
  LET rows == SplitLines(env.cpu_usage)
      out == result.samples
  IN  /\ (pc = "done" /\ flags.redis_memtier_measure_cpu) =>
           /\ \A i \in 1..Len(rows) : FollowsFormat(rows[i])
           /\ Len(out) = Len(rows)
           /\ \A i \in 1..Len(rows) :
                /\ out[i].metric = "CPU Idle time"
                /\ out[i].metadata.time_series_sec = i - 1
                /\ out[i].value = IdleValueOf(rows[i])
                /\ out[i].metadata.cpu_idle_percent = IdleValueOf(rows[i])
      /\ pc = "failed" =>
           /\ ~result.returned
           /\ result.samples = <<>>
           /\ error \in {"IndexError", "ValueError", "RemoteCommandError"}
           /\ error # "RemoteCommandError" =>
                \E i \in 1..Len(rows) : ~FollowsFormat(rows[i])

\* _GetTopResults returned two samples: for a line as top prints it (idle
\* value 96.9), then for the scenario's line (fourth field ' 0.0 ni') or for
\* a minimal line
C9_Witness ==
  /\ pc = "done"
  /\ flags.redis_memtier_measure_cpu
  /\ Len(result.samples) = 2
  /\ result.samples[1].value = <<"9", "6", ".", "9">>
  /\ result.samples[1].metadata.time_series_sec = 0
  /\ result.samples[2].value \in {<<"0", ".", "0">>, <<"9", "8">>}
  /\ result.samples[2].metadata.time_series_sec = 1

====
